---- MODULE Spec2Model ----
(***************************************************************************)
(* MedFX Navigator (src/app.py): a Streamlit script that is re-run from    *)
(* top to bottom on every user interaction.  Each run loads the exchange   *)
(* rate series and the pickled Holt model through Streamlit's caches,      *)
(* slices the series, asks the model for two forecasts and renders one of  *)
(* three pages.                                                            *)
(***************************************************************************)
EXTENDS Integers, Sequences, FiniteSets

(***************************************************************************)
(* Binary floating point.  The script computes with float64; TLC's         *)
(* integers have 32 bits, so the model keeps IEEE-754's rules (round to    *)
(* nearest, ties to even; gradual underflow; x/0 = inf; inf-inf = nan) on  *)
(* a narrower format: FloatBits significand bits, and FloatFrac fraction   *)
(* bits at the smallest exponent.  A finite value is held as its number k  *)
(* of quanta, the value being k / 2^FloatFrac.                             *)
(***************************************************************************)
FloatBits == 13

FloatFrac == 10

Fin(k) == [c |-> "fin", k |-> k]

PosInf == [c |-> "inf", k |-> 1]

NegInf == [c |-> "inf", k |-> -1]

NaN == [c |-> "nan", k |-> 0]

Abs(i) == IF i < 0 THEN -i ELSE i

Sign(i) == IF i < 0 THEN -1 ELSE IF i > 0 THEN 1 ELSE 0

\* n/d (n >= 0, d > 0) rounded to the nearest integer, ties to even.
RoundHalfEven(n, d) ==
    LET q == n \div d
        r == n % d
    IN  IF 2 * r < d THEN q
        ELSE IF 2 * r > d THEN q + 1
        ELSE q + (q % 2)

\* The shift s >= 0 that brings k > 0 under 2^FloatBits.
RECURSIVE IntShift(_, _)
IntShift(k, s) ==
    IF k \div (2 ^ s) < 2 ^ FloatBits THEN s ELSE IntShift(k, s + 1)

\* The float nearest to k quanta (k any integer): the rounding every
\* addition and multiplication ends with.
RoundInt(k) ==
    IF Abs(k) < 2 ^ FloatBits THEN Fin(k)
    ELSE LET s == IntShift(Abs(k), 1)
         IN  Fin(Sign(k) * RoundHalfEven(Abs(k), 2 ^ s) * (2 ^ s))

\* Whether a * 2^t < b * 2^FloatBits (a, b > 0), without leaving 32 bits.
ScaledBelow(a, b, t) ==
    IF t >= 0 THEN a <= ((2 ^ FloatBits) * b - 1) \div (2 ^ t)
    ELSE a < (2 ^ FloatBits) * b * (2 ^ (-t))

\* The largest t <= FloatFrac with a * 2^t / b < 2^FloatBits.
RECURSIVE QuotExp(_, _, _)
QuotExp(a, b, t) ==
    IF ScaledBelow(a, b, t) THEN t ELSE QuotExp(a, b, t - 1)

\* The float nearest to the ratio a/b (a, b > 0), in quanta.
RoundQuot(a, b) ==
    LET t == QuotExp(a, b, FloatFrac)
        m == IF t >= 0 THEN RoundHalfEven(a * (2 ^ t), b)
             ELSE RoundHalfEven(a, b * (2 ^ (-t)))
    IN  m * (2 ^ (FloatFrac - t))

\* int -> float64 (exact for the integers the script uses).
FromInt(i) == RoundInt(i * (2 ^ FloatFrac))

FNeg(x) == [x EXCEPT !.k = -x.k]

\* x + y
FAdd(x, y) ==
    IF x.c = "nan" \/ y.c = "nan" THEN NaN
    ELSE IF x.c = "inf" /\ y.c = "inf" THEN (IF x.k = y.k THEN x ELSE NaN)
    ELSE IF x.c = "inf" THEN x
    ELSE IF y.c = "inf" THEN y
    ELSE RoundInt(x.k + y.k)

\* x - y
FSub(x, y) == FAdd(x, FNeg(y))

\* i * x for an integer i
FMulInt(i, x) ==
    IF x.c = "nan" THEN NaN
    ELSE IF x.c = "inf" THEN (IF i = 0 THEN NaN ELSE [x EXCEPT !.k = Sign(i) * x.k])
    ELSE RoundInt(i * x.k)

\* x / y with numpy's float64 semantics: a zero divisor gives inf or nan
\* (and a RuntimeWarning), never an exception.
FDiv(x, y) ==
    IF x.c = "nan" \/ y.c = "nan" THEN NaN
    ELSE IF x.c = "inf" THEN (IF y.c = "inf" THEN NaN
                              ELSE [x EXCEPT !.k = x.k * (IF y.k < 0 THEN -1 ELSE 1)])
    ELSE IF y.c = "inf" THEN Fin(0)
    ELSE IF y.k = 0 THEN (IF x.k = 0 THEN NaN
                          ELSE IF x.k > 0 THEN PosInf ELSE NegInf)
    ELSE IF x.k = 0 THEN Fin(0)
    ELSE Fin(Sign(x.k) * Sign(y.k) * RoundQuot(Abs(x.k), Abs(y.k)))

\* x > y: false whenever either side is nan.
FGt(x, y) ==
    IF x.c = "nan" \/ y.c = "nan" THEN FALSE
    ELSE IF x.c = "inf" THEN x.k = 1 /\ ~(y.c = "inf" /\ y.k = 1)
    ELSE IF y.c = "inf" THEN y.k = -1
    ELSE x.k > y.k

\* The sum of the first i elements of s, accumulated left to right, each
\* partial sum rounded.
RECURSIVE FSum(_, _)
FSum(s, i) ==
    IF i = 0 THEN Fin(0) ELSE FAdd(FSum(s, i - 1), s[i])

(***************************************************************************)
(* Dates.  A date string of the file is day-first text "dd/mm/yyyy", held  *)
(* as <<dd, mm, yyyy>>; a Timestamp is held as its proleptic Gregorian     *)
(* ordinal, so that adding Timedelta(days=1) adds one.                     *)
(***************************************************************************)
IsLeap(y) == (y % 4 = 0 /\ y % 100 # 0) \/ y % 400 = 0

DaysInMonth(m, y) ==
    IF m = 2 THEN (IF IsLeap(y) THEN 29 ELSE 28)
    ELSE IF m \in {4, 6, 9, 11} THEN 30 ELSE 31

RECURSIVE DaysBeforeMonth(_, _)
DaysBeforeMonth(m, y) ==
    IF m = 1 THEN 0 ELSE DaysBeforeMonth(m - 1, y) + DaysInMonth(m - 1, y)

\* Whether "dd/mm/yyyy" names a day of the calendar.
ValidDate(s) ==
    /\ s[2] \in 1..12
    /\ s[1] \in 1..DaysInMonth(s[2], s[3])

\* pd.to_datetime(text, dayfirst=True) of one well-formed string: the first
\* field is the day, the second the month.
ToDatetime(s) ==
    LET y == s[3] - 1
    IN  365 * y + (y \div 4) - (y \div 100) + (y \div 400)
          + DaysBeforeMonth(s[2], s[3]) + s[1]

\* The decimal text n/d of a USD cell, parsed to the nearest float.
ParseFloat(u) ==
    IF u[1] = 0 THEN Fin(0)
    ELSE Fin(Sign(u[1]) * RoundQuot(Abs(u[1]), u[2]))

(***************************************************************************)
(* Python sequences.  Sequences here are 1-based; a Python index i of a    *)
(* sequence of length n is position i + 1.                                 *)
(***************************************************************************)
Max(a, b) == IF a > b THEN a ELSE b

Min(a, b) == IF a < b THEN a ELSE b

\* A slice bound as Python normalises it: negative counts from the end,
\* and the result is clamped into 0..n.
SliceIndex(i, n) == IF i < 0 THEN Max(n + i, 0) ELSE Min(i, n)

\* s.iloc[:stop]
ILocTo(s, stop) == SubSeq(s, 1, SliceIndex(stop, Len(s)))

\* s.iloc[start:]
ILocFrom(s, start) == SubSeq(s, SliceIndex(start, Len(s)) + 1, Len(s))

(***************************************************************************)
(* The two files the script reads.                                         *)
(*   exchange-rates-new.csv: exists or not; its rows, in file order, each  *)
(*     a date string and the decimal text of the USD cell.                 *)
(*   holt_model.pkl: exists or not; unpickles or not; the fitted Holt      *)
(*     parameters (level and trend at the end of the training data).       *)
(***************************************************************************)
\* The test window of lines 70-71.
TestSize == 216

\* Short series have 0..MaxShort points.
MaxShort == 1

\* Long series have up to TestSize + MaxExtra points.
MaxExtra == 1

\* No run starts once a file has been read MaxReads times.
MaxReads == 3

\* The lengths of the series the files hold: short ones, and the lengths
\* around the test window's.
Lengths == (0..MaxShort) \cup ((TestSize - 1)..(TestSize + MaxExtra))

\* The date string of the first day a file covers.
FirstDay == <<25, 12, 2023>>

\* The decimal text of the rate at a file's latest date.
LastUSD == <<50488, 10000>>

\* The date string of the day k days after s.
RECURSIVE AddDays(_, _)
AddDays(s, k) ==
    IF s[1] + k <= DaysInMonth(s[2], s[3]) THEN <<s[1] + k, s[2], s[3]>>
    ELSE LET left == k - (DaysInMonth(s[2], s[3]) - s[1]) - 1
         IN  IF s[2] < 12 THEN AddDays(<<1, s[2] + 1, s[3]>>, left)
             ELSE AddDays(<<1, 1, s[3] + 1>>, left)

\* n rows, one per consecutive day from FirstDay, oldest first; the rate
\* differs from day to day and ends at LastUSD.
ChronoRows(n) ==
    [j \in 1..n |->
        [date |-> AddDays(FirstDay, j - 1),
         USD |-> <<LastUSD[1] - 100 * ((n - j) % 3), LastUSD[2]>>]]

\* The rows with the last two exchanged: the newest row is no longer last.
SwapLast(rows) ==
    LET n == Len(rows)
    IN  [i \in 1..n |-> IF i = n THEN rows[n - 1]
                        ELSE IF i = n - 1 THEN rows[n] ELSE rows[i]]

\* The rows with a date string that names no day ("31/02/2024").
BadDate(rows) == [rows EXCEPT ![1] = [@ EXCEPT !.date = <<31, 2, 2024>>]]

SortedFiles ==
    {[exists |-> TRUE, rows |-> ChronoRows(n)] : n \in Lengths}

DefaultFile ==
    [exists |-> TRUE, rows |-> ChronoRows(TestSize + 1)]

Files ==
    SortedFiles \cup
    { [exists |-> FALSE, rows |-> <<>>],
      [exists |-> TRUE, rows |-> BadDate(DefaultFile.rows)],
      [exists |-> TRUE, rows |-> SwapLast(DefaultFile.rows)] }

Artifact(level, trend) ==
    [exists |-> TRUE, loads |-> TRUE, level |-> level, trend |-> trend]

\* A model whose forecasts rise from the latest rate.
DefaultPkl == Artifact(ParseFloat(LastUSD), Fin(10))

Pkls ==
    { DefaultPkl,
      [exists |-> FALSE, loads |-> FALSE, level |-> Fin(0), trend |-> Fin(0)],
      [exists |-> TRUE, loads |-> FALSE, level |-> Fin(0), trend |-> Fin(0)],
      Artifact(ParseFloat(LastUSD), Fin(0)),
      Artifact(ParseFloat(LastUSD), Fin(-10)),
      Artifact(Fin(ParseFloat(LastUSD).k + 1), Fin(0)),
      Artifact(Fin(0), Fin(0)) }

\* The pairs of files a process starts with.
Scenarios == (Files \X {DefaultPkl}) \cup ({DefaultFile} \X Pkls)

(***************************************************************************)
(* The script's constants.                                                 *)
(***************************************************************************)
MinHorizon == 1

MaxHorizon == 30

DefaultHorizon == 7

MinCost == 100

DefaultCost == 20000

Market == "Market Insights"

Budget == "Budget & Hospital Planner"

Recovery == "Recovery & Travel"

Pages == {Market, Budget, Recovery}

\* procedures["Cost_MYR"]
Cost_MYR == <<2000, 8000, 45000, 7500>>

\* The costs a user types into the number input.
Costs == {MinCost, DefaultCost}

(***************************************************************************)
(* State.  The files; the process's two Streamlit caches (<<>> or the one  *)
(* cached value) with the number of times each file was actually read;     *)
(* the session's widget values; and what the last run of the script bound  *)
(* and drew.  raised is the line whose exception ended the last run, 0 if  *)
(* it ran to the end; a name the run did not bind holds <<>> or Unbound.   *)
(***************************************************************************)
VARIABLES csv, pkl, data_cache, resource_cache, csvReads, pklLoads,
          horizon, active_page, user_cost_myr,
          raised, shown, df, model, train, test, test_forecast, last_date,
          future_dates, future_forecast, current_rate, avg_future,
          calc_df, proc_df, savings

vars == <<csv, pkl, data_cache, resource_cache, csvReads, pklLoads,
          horizon, active_page, user_cost_myr,
          raised, shown, df, model, train, test, test_forecast, last_date,
          future_dates, future_forecast, current_rate, avg_future,
          calc_df, proc_df, savings>>

Unbound == [c |-> "unbound", k |-> 0]

\* pd.NaT: the maximum of an empty index.
NaT == 0

(***************************************************************************)
(* Loading (lines 28-41).                                                  *)
(***************************************************************************)
\* The body of load_data: read the file, parse the date column day-first,
\* index by date.  The rows keep the file's order.
load_data_body(file) ==
    IF ~file.exists THEN [raised |-> TRUE, value |-> <<>>]
    ELSE IF \E i \in 1..Len(file.rows) : ~ValidDate(file.rows[i].date)
    THEN [raised |-> TRUE, value |-> <<>>]
    ELSE [raised |-> FALSE,
          value |-> [i \in 1..Len(file.rows) |->
                       [date |-> ToDatetime(file.rows[i].date),
                        USD |-> ParseFloat(file.rows[i].USD)]]]

\* load_model's body with the failure swallowed: whatever the artifact, a
\* model comes back.
load_model_body_swallowing(file) ==
    [raised |-> FALSE, value |-> [level |-> file.level, trend |-> file.trend]]

\* The body of load_model: open the artifact and unpickle it.
load_model_body(file) ==
    IF file.exists /\ file.loads
    THEN [raised |-> FALSE, value |-> [level |-> file.level, trend |-> file.trend]]
    ELSE [raised |-> TRUE, value |-> <<>>]

\* load_data without its cache decorator: the body runs on every call.
load_data_uncached ==
    LET r == load_data_body(csv)
    IN  [raised |-> r.raised, value |-> r.value, ran |-> TRUE,
         cache |-> IF r.raised THEN data_cache ELSE <<r.value>>]

\* @st.cache_data: the cached value when there is one; otherwise the body
\* runs, and its value is cached only when it returns.
load_data ==
    IF Len(data_cache) > 0
    THEN [raised |-> FALSE, value |-> data_cache[1], cache |-> data_cache, ran |-> FALSE]
    ELSE LET r == load_data_body(csv)
         IN  [raised |-> r.raised, value |-> r.value, ran |-> TRUE,
              cache |-> IF r.raised THEN data_cache ELSE <<r.value>>]

\* @st.cache_resource: likewise.
load_model ==
    IF Len(resource_cache) > 0
    THEN [raised |-> FALSE, value |-> resource_cache[1], cache |-> resource_cache,
          ran |-> FALSE]
    ELSE LET r == load_model_body(pkl)
         IN  [raised |-> r.raised, value |-> r.value, ran |-> TRUE,
              cache |-> IF r.raised THEN resource_cache ELSE <<r.value>>]

(***************************************************************************)
(* Forecast preparation (lines 70-88).                                     *)
(***************************************************************************)
\* df["USD"]
USD(d) == [i \in 1..Len(d) |-> d[i].USD]

\* train = df["USD"].iloc[:-216]
Train(d) == ILocTo(USD(d), -TestSize)

\* test cut one point short of the window.
TestOffByOne(d) == ILocFrom(USD(d), -(TestSize - 1))

\* test = df["USD"].iloc[-216:]
Test(d) == ILocFrom(USD(d), -TestSize)

\* model.forecast(steps): Holt's linear extrapolation of level and trend.
Forecast(m, steps) ==
    [i \in 1..steps |-> FAdd(m.level, FMulInt(i, m.trend))]

\* max(df.index[lo..hi]), lo <= hi, by halves.
RECURSIVE IndexMax(_, _, _)
IndexMax(d, lo, hi) ==
    IF lo = hi THEN d[lo].date
    ELSE LET mid == (lo + hi) \div 2
         IN  Max(IndexMax(d, lo, mid), IndexMax(d, mid + 1, hi))

\* last_date = df.index.max()
LastDate(d) == IF Len(d) = 0 THEN NaT ELSE IndexMax(d, 1, Len(d))

\* pd.date_range(start=start, periods=periods, freq="D")
DateRange(start, periods) == [i \in 1..periods |-> start + (i - 1)]

\* future_dates started at the last date itself.
FutureDatesFromLast(last, h) == DateRange(last, h)

\* future_dates
FutureDates(last, h) == DateRange(last + 1, h)

\* current_rate = df["USD"].iloc[-1]
CurrentRate(d) == USD(d)[Len(d)]

\* Series.mean()
Mean(s) == FDiv(FSum(s, Len(s)), FromInt(Len(s)))

(***************************************************************************)
(* The pages (lines 93-310): what each draws, and what Budget computes.    *)
(***************************************************************************)
\* The action plan with >= for >.
ActionPlanOrEqual(avg, cur) == IF FGt(cur, avg) THEN "monitor" ELSE "favorable"

\* Lines 105-116: the action plan.
ActionPlan(avg, cur) == IF FGt(avg, cur) THEN "favorable" ELSE "monitor"

MarketPage(avg, cur) == {"metrics", ActionPlan(avg, cur), "chart"}

\* Lines 170-177: calc_data's "Estimated Cost (USD)".
CalcCost(cost, cur, avg) ==
    <<FDiv(FromInt(cost), cur), FDiv(FromInt(cost), avg)>>

\* Lines 199-204: USD (Current), USD (Forecasted), Difference.
ProcDf(cur, avg) ==
    [i \in 1..Len(Cost_MYR) |->
        LET now == FDiv(FromInt(Cost_MYR[i]), cur)
            later == FDiv(FromInt(Cost_MYR[i]), avg)
        IN  [current |-> now, forecasted |-> later, difference |-> FSub(now, later)]]

\* savings with its operands exchanged.
SavingsSwapped(calc) == FSub(calc[2], calc[1])

\* Lines 214-217.
Savings(calc) == FSub(calc[1], calc[2])

\* Lines 219-222.
SavingsMessage(s) == IF FGt(s, Fin(0)) THEN "potential_savings" ELSE "no_advantage"

BudgetPage(s) ==
    {"number_input", "calc_table", "proc_table", SavingsMessage(s), "hospitals"}

RecoveryPage == {"treatment", "activities", "nutrition", "risk"}

(***************************************************************************)
(* One run of the script, top to bottom, with the widgets at h, p and c.   *)
(* An exception ends the run where it is raised; Streamlit draws it in     *)
(* place of the rest of the page.  Each stage yields the names bound and   *)
(* the elements drawn so far.                                              *)
(***************************************************************************)
NoModel == [level |-> Unbound, trend |-> Unbound]

\* The names of a run that has bound nothing yet.
Blank ==
    [raised |-> 0, shown |-> {}, df |-> <<>>, model |-> NoModel,
     train |-> <<>>, test |-> <<>>, test_forecast |-> <<>>, last_date |-> NaT,
     future_dates |-> <<>>, future_forecast |-> <<>>,
     current_rate |-> Unbound, avg_future |-> Unbound,
     calc_df |-> <<>>, proc_df |-> <<>>, savings |-> Unbound]

\* Lines 93-310: the page the selectbox names.
Page(ns, p, c) ==
    IF p = Market
    THEN [ns EXCEPT !.shown = @ \cup MarketPage(ns.avg_future, ns.current_rate)]
    ELSE IF p = Budget
    THEN LET calc == CalcCost(c, ns.current_rate, ns.avg_future)
         IN  [ns EXCEPT !.calc_df = calc,
                        !.proc_df = ProcDf(ns.current_rate, ns.avg_future),
                        !.savings = Savings(calc),
                        !.shown = @ \cup BudgetPage(Savings(calc))]
    ELSE [ns EXCEPT !.shown = @ \cup RecoveryPage]

\* Lines 70-88.  zeroRaises: whether the model's forecast(steps=0) raises
\* (it does, or it returns an empty series, depending on the library).
Prepare(d, m, h, zeroRaises) ==
    LET te == Test(d)
        last == LastDate(d)
        ff == Forecast(m, h)
        s1 == [Blank EXCEPT !.df = d, !.model = m, !.shown = {"sidebar"},
                            !.train = Train(d), !.test = te]
    IN  IF Len(te) = 0 /\ zeroRaises
        THEN [s1 EXCEPT !.raised = 73, !.shown = @ \cup {"exception"}]
        ELSE IF last = NaT
        THEN [s1 EXCEPT !.test_forecast = Forecast(m, Len(te)),
                        !.raised = 76, !.shown = @ \cup {"exception"}]
        ELSE [s1 EXCEPT !.test_forecast = Forecast(m, Len(te)),
                        !.last_date = last,
                        !.future_dates = FutureDates(last, h),
                        !.future_forecast = ff,
                        !.current_rate = CurrentRate(d),
                        !.avg_future = Mean(ff)]

\* Lines 40-88: the loads, the sidebar, the forecasts.
Script(ld, lm, h, zeroRaises) ==
    IF ld.raised
    THEN [Blank EXCEPT !.raised = 40, !.shown = {"exception"}]
    ELSE IF lm.raised
    THEN [Blank EXCEPT !.raised = 41, !.shown = {"exception"}, !.df = ld.value]
    ELSE Prepare(ld.value, lm.value, h, zeroRaises)

\* Lines 93-320: the selected page and the footer, when nothing was raised.
Render(ns, p, c) ==
    IF ns.raised # 0 THEN ns
    ELSE [Page(ns, p, c) EXCEPT !.shown = @ \cup {"footer"}]

\* The outcomes of forecast(steps=0), which only an empty series asks for.
ZeroStepOutcomes ==
    IF csv.exists /\ Len(csv.rows) = 0 THEN BOOLEAN ELSE {FALSE}

\* A run.  load_model is called only when load_data returned; a widget the
\* run did not draw loses its value and is at its default when next drawn.
Run(h, p, c) ==
    /\ csvReads < MaxReads
    /\ pklLoads < MaxReads
    /\ \E zeroRaises \in ZeroStepOutcomes, ld \in {load_data}, lm \in {load_model} :
         \E pre \in {Script(ld, lm, h, zeroRaises)} : \E ns \in {Render(pre, p, c)} :
             /\ data_cache' = ld.cache
             /\ csvReads' = IF ld.ran /\ csv.exists THEN csvReads + 1 ELSE csvReads
             /\ resource_cache' = IF ld.raised THEN resource_cache ELSE lm.cache
             /\ pklLoads' = IF ~ld.raised /\ lm.ran /\ pkl.exists
                            THEN pklLoads + 1 ELSE pklLoads
             /\ horizon' = IF "sidebar" \in ns.shown THEN h ELSE DefaultHorizon
             /\ active_page' = IF "sidebar" \in ns.shown THEN p ELSE Market
             /\ user_cost_myr' = IF "number_input" \in ns.shown THEN c ELSE DefaultCost
             /\ raised' = ns.raised
             /\ shown' = ns.shown
             /\ df' = ns.df
             /\ model' = ns.model
             /\ train' = ns.train
             /\ test' = ns.test
             /\ test_forecast' = ns.test_forecast
             /\ last_date' = ns.last_date
             /\ future_dates' = ns.future_dates
             /\ future_forecast' = ns.future_forecast
             /\ current_rate' = ns.current_rate
             /\ avg_future' = ns.avg_future
             /\ calc_df' = ns.calc_df
             /\ proc_df' = ns.proc_df
             /\ savings' = ns.savings
    /\ UNCHANGED <<csv, pkl>>

(***************************************************************************)
(* The process starts with empty caches and no session.                    *)
(***************************************************************************)
Init ==
    /\ \E sc \in Scenarios : csv = sc[1] /\ pkl = sc[2]
    /\ data_cache = <<>>
    /\ resource_cache = <<>>
    /\ csvReads = 0
    /\ pklLoads = 0
    /\ horizon = DefaultHorizon
    /\ active_page = Market
    /\ user_cost_myr = DefaultCost
    /\ raised = Blank.raised
    /\ shown = Blank.shown
    /\ df = Blank.df
    /\ model = Blank.model
    /\ train = Blank.train
    /\ test = Blank.test
    /\ test_forecast = Blank.test_forecast
    /\ last_date = Blank.last_date
    /\ future_dates = Blank.future_dates
    /\ future_forecast = Blank.future_forecast
    /\ current_rate = Blank.current_rate
    /\ avg_future = Blank.avg_future
    /\ calc_df = Blank.calc_df
    /\ proc_df = Blank.proc_df
    /\ savings = Blank.savings

\* The browser opens the app: the first run, every widget at its default.
Open ==
    /\ shown = {}
    /\ Run(DefaultHorizon, Market, DefaultCost)

\* The user reruns the script without touching a widget.
Rerun ==
    /\ shown # {}
    /\ Run(horizon, active_page, user_cost_myr)

\* The user moves the horizon slider (line 50).
SetHorizon(h) ==
    /\ "sidebar" \in shown
    /\ h # horizon
    /\ Run(h, active_page, user_cost_myr)

\* The user selects another module (lines 52-59).
SelectPage(p) ==
    /\ "sidebar" \in shown
    /\ p # active_page
    /\ Run(horizon, p, user_cost_myr)

\* The user types another cost (lines 164-168).
SetCost(c) ==
    /\ "number_input" \in shown
    /\ c # user_cost_myr
    /\ Run(horizon, active_page, c)

Next ==
    \/ Open
    \/ Rerun
    \/ \E h \in MinHorizon..MaxHorizon : SetHorizon(h)
    \/ \E p \in Pages : SelectPage(p)
    \/ \E c \in Costs : SetCost(c)

Spec == Init /\ [][Next]_vars
(***************************************************************************)
(* Properties.                                                             *)
(***************************************************************************)
\* A run has happened and ran to the end.
Rendered == raised = 0 /\ "footer" \in shown

\* The file can be read and every date string in it names a day.
CsvLoadable ==
    csv.exists /\ \A i \in 1..Len(csv.rows) : ValidDate(csv.rows[i].date)

\* The artifact can be opened and unpickled.
PklLoadable == pkl.exists /\ pkl.loads

\* What the three pages draw.
ViewElements ==
    {"metrics", "favorable", "monitor", "chart", "number_input", "calc_table",
     "proc_table", "potential_savings", "no_advantage", "hospitals",
     "treatment", "activities", "nutrition", "risk"}

\* x > 0 and x <= 0 for a float (neither holds of nan).
Positive(x) == (x.c = "fin" /\ x.k > 0) \/ (x.c = "inf" /\ x.k = 1)

NonPositive(x) == (x.c = "fin" /\ x.k <= 0) \/ (x.c = "inf" /\ x.k = -1)

\* C1: whenever a run has sliced a series of at least 216 points, whatever
\* the horizon and whatever runs came before, train and test together have
\* the series' length, test has exactly 216 points and the test forecast
\* has exactly 216 steps.
C1_SplitSizes ==
    ("sidebar" \in shown /\ Len(df) >= TestSize) =>
        /\ Len(train) + Len(test) = Len(df)
        /\ Len(test) = TestSize
        /\ Len(test_forecast) = TestSize

\* C1's case: a series longer than the window, rendered at a horizon other
\* than the default one after a change of horizon.
C1_Witness ==
    /\ Rendered
    /\ Len(df) > TestSize
    /\ horizon = MaxHorizon
    /\ Len(train) = Len(df) - TestSize

\* C2: a run that got to the projection at horizon h has exactly h forecast
\* values and exactly h dates, each date one day after the one before and
\* the first one day after the latest date of the series.
C2_FutureProjection ==
    Rendered =>
        /\ Len(future_forecast) = horizon
        /\ Len(future_dates) = horizon
        /\ \A i \in 1..Len(df) : df[i].date <= future_dates[1] - 1
        /\ \E i \in 1..Len(df) : df[i].date = future_dates[1] - 1
        /\ \A i \in 2..Len(future_dates) : future_dates[i] = future_dates[i - 1] + 1

\* C2's case: the longest horizon, over a series whose latest date is the
\* last day of July's fourth week, so the dates run over the month's end.
C2_Witness ==
    /\ Rendered
    /\ horizon = MaxHorizon
    /\ Len(future_dates) = MaxHorizon
    /\ future_dates[MaxHorizon] = future_dates[1] + (MaxHorizon - 1)

\* C3: a run over a series of fewer than 216 points ends in an error and
\* draws no page.
C3_ShortSeriesRejected ==
    ("sidebar" \in shown /\ Len(df) < TestSize) =>
        (raised # 0 /\ shown \cap ViewElements = {})

\* C4: the Budget page never converts a cost at a future-average rate of
\* zero.
C4_ZeroRateGuarded ==
    "calc_table" \in shown => avg_future # Fin(0)

C6_ViewsOnlyAfterLoads ==
    /\ shown \cap ViewElements # {} =>
         (CsvLoadable /\ PklLoadable /\ raised = 0
            /\ Len(data_cache) > 0 /\ Len(resource_cache) > 0)
    /\ (shown # {} /\ ~(CsvLoadable /\ PklLoadable)) =>
         /\ raised = (IF CsvLoadable THEN 41 ELSE 40)
         /\ shown = {"exception"}
         /\ train = <<>> /\ test = <<>>
         /\ test_forecast = <<>> /\ future_forecast = <<>>

\* C6's case: the series loaded, the artifact did not unpickle.
C6_Witness ==
    /\ raised = 41
    /\ pklLoads > 0
    /\ Len(data_cache) > 0
    /\ shown = {"exception"}

\* C7: the loaded series is strictly ascending by date, so its last row is
\* the row of its latest date.
C7_SortedSeries ==
    "sidebar" \in shown =>
        /\ \A i \in 1..(Len(df) - 1) : df[i].date < df[i + 1].date
        /\ Rendered => (df[Len(df)].date = last_date
                          /\ future_dates[1] = df[Len(df)].date + 1)

\* C8: the Market page draws exactly one of the two messages: the
\* favorable one when avg_future > current_rate, the monitor one otherwise.
C8_MarketAdvice ==
    "metrics" \in shown =>
        /\ ("favorable" \in shown) # ("monitor" \in shown)
        /\ avg_future.c = "fin" /\ current_rate.c = "fin"
        /\ "favorable" \in shown <=> avg_future.k > current_rate.k

\* C8's case: the forecast average equals the current rate.
C8_Witness ==
    /\ "metrics" \in shown
    /\ avg_future = current_rate
    /\ "monitor" \in shown

\* C9: on the Budget page savings is the cost at the current rate less the
\* cost at the forecast average, and exactly one message is drawn: the
\* savings one when savings > 0, the no-advantage one when savings <= 0.
C9_BudgetOutcome ==
    "calc_table" \in shown =>
        /\ user_cost_myr >= MinCost
        /\ savings = FSub(FDiv(FromInt(user_cost_myr), current_rate),
                          FDiv(FromInt(user_cost_myr), avg_future))
        /\ ("potential_savings" \in shown) # ("no_advantage" \in shown)
        /\ "potential_savings" \in shown <=> Positive(savings)
        /\ NonPositive(savings) => "no_advantage" \in shown

\* C9's case: the forecast average is below the current rate, so paying
\* later costs more.
C9_Witness ==
    /\ "calc_table" \in shown
    /\ savings.c = "fin" /\ savings.k < 0
    /\ "no_advantage" \in shown
    /\ user_cost_myr = MinCost

\* C10: two consecutive runs at the same horizon with positive rates, one
\* drawing Market and the other Budget, agree: Budget draws the savings
\* message exactly when Market draws the favorable one.
C10_AdviceAgrees ==
    [][ (/\ horizon' = horizon
         /\ Positive(current_rate') /\ Positive(avg_future')
         /\ Positive(current_rate) /\ Positive(avg_future))
        => /\ ("metrics" \in shown /\ "calc_table" \in shown') =>
                ("favorable" \in shown <=> "potential_savings" \in shown')
           /\ ("calc_table" \in shown /\ "metrics" \in shown') =>
                ("potential_savings" \in shown <=> "favorable" \in shown') ]_vars
====
